---- MODULE Spec2Model ----
(***************************************************************************)
(* Model of scripts/screenshot.py: the Screenshot-HH:MM:SS marker          *)
(* extractor, the ffmpeg frame extractor, the substitution loop of         *)
(* replace_screenshots and the main() harness around them.                 *)
(*                                                                         *)
(* Text is a sequence of one-character strings, so that the regular        *)
(* expression, str.replace, str.rstrip, int() and the {:02d} format are    *)
(* computed character by character, as Python computes them.               *)
(***************************************************************************)
EXTENDS Integers, Sequences, FiniteSets, TLC

VARIABLES
    pc,             \* position of the running program
    cwd,            \* main: the working directory, [md: documents, mp4: names]
    text_in,        \* replace_screenshots: the markdown argument as passed
    video_path,     \* replace_screenshots: the video_path argument, or None
    image_base_url, \* replace_screenshots: the image_base_url argument
    markdown,       \* replace_screenshots: the local `markdown`, rebound by each replace
    matches,        \* replace_screenshots: the list `matches`
    idx,            \* replace_screenshots: position of the for loop (1-based)
    calls,          \* log of generate_screenshot invocations of the running pass
    dir_exists,     \* whether output_dir exists on disk
    files,          \* names of the image files present in output_dir
    note,           \* main: what write_note wrote, or NoNote
    summary,        \* main: whether the JSON summary was printed
    pass,           \* round trip: 1 or 2
    prev            \* round trip: input, output and calls of the first pass

vars == <<pc, cwd, text_in, video_path, image_base_url, markdown, matches, idx,
          calls, dir_exists, files, note, summary, pass, prev>>

-----------------------------------------------------------------------------
(* Bounds of the model *)

\* longest document, in segments
MaxSegs == 3
\* longest document of the round-trip runs, in segments
MaxSegsRT == 2

-----------------------------------------------------------------------------
(* Text *)

DigitChars == <<"0","1","2","3","4","5","6","7","8","9">>
Digit == {DigitChars[i] : i \in 1..Len(DigitChars)}

\* value of one decimal digit
DigitVal(c) == (CHOOSE i \in 1..Len(DigitChars) : DigitChars[i] = c) - 1

\* int(s) for a string of decimal digits
RECURSIVE IntOf(_)
IntOf(ds) ==
    IF ds = <<>> THEN 0
    ELSE 10 * IntOf(SubSeq(ds, 1, Len(ds) - 1)) + DigitVal(ds[Len(ds)])

\* str(n) for n >= 0
RECURSIVE Dec(_)
Dec(n) ==
    IF n < 10 THEN <<DigitChars[n + 1]>>
    ELSE Dec(n \div 10) \o <<DigitChars[(n % 10) + 1]>>

\* mutant of Fmt02d: f"{n}", the padding forgotten
FmtPlain(n) == Dec(n)

\* f"{n:02d}": decimal, zero-padded on the left to at least two characters
Fmt02d(n) == IF Len(Dec(n)) < 2 THEN <<"0">> \o Dec(n) ELSE Dec(n)

\* whether `sub` occurs in s at position p
HasAt(s, p, sub) ==
    /\ p >= 1
    /\ p + Len(sub) - 1 <= Len(s)
    /\ sub # <<>> => s[p] = sub[1]
    /\ SubSeq(s, p, p + Len(sub) - 1) = sub

\* mutant of Find: str.rfind, the highest position
FindLast(s, sub) ==
    LET hits == {p \in 1..Len(s) : HasAt(s, p, sub)}
    IN  IF hits = {} THEN 0 ELSE CHOOSE p \in hits : \A q \in hits : p >= q

\* str.find, 1-based: the lowest position of `sub` in s, 0 when absent
Find(s, sub) ==
    LET hits == {p \in 1..Len(s) : HasAt(s, p, sub)}
    IN  IF hits = {} THEN 0 ELSE CHOOSE p \in hits : \A q \in hits : p <= q

\* mutant of Replace1: s.replace(old, new), the count forgotten
RECURSIVE ReplaceAll(_, _, _)
ReplaceAll(s, old, new) ==
    LET p == Find(s, old)
    IN  IF p = 0 THEN s
        ELSE SubSeq(s, 1, p - 1) \o new
                 \o ReplaceAll(SubSeq(s, p + Len(old), Len(s)), old, new)

\* s.replace(old, new, 1)
Replace1(s, old, new) ==
    LET p == Find(s, old)
    IN  IF p = 0 THEN s
        ELSE SubSeq(s, 1, p - 1) \o new \o SubSeq(s, p + Len(old), Len(s))

\* s.rstrip('/')
RECURSIVE RStripSlash(_)
RStripSlash(s) ==
    IF s # <<>> /\ s[Len(s)] = "/" THEN RStripSlash(SubSeq(s, 1, Len(s) - 1))
    ELSE s

-----------------------------------------------------------------------------
(* extract_screenshot_markers *)

Literal == <<"S","c","r","e","e","n","s","h","o","t","-">>

NoMatch == [ok |-> FALSE]

\* \d{2}:\d{2}:\d{2} at position p
TimeAt(s, p) ==
    /\ p >= 1
    /\ p + 7 <= Len(s)
    /\ \A k \in {0, 1, 3, 4, 6, 7} : s[p + k] \in Digit
    /\ s[p + 2] = ":"
    /\ s[p + 5] = ":"

\* Screenshot-(?:\[(\d{2}):(\d{2}):(\d{2})\]|(\d{2}):(\d{2}):(\d{2})) at position q,
\* the match starting at `start` (q, or q - 1 when the optional * was taken)
BodyAt(s, start, q) ==
    LET r == q + Len(Literal)
        m(t, stop) ==
            [ok |-> TRUE, start |-> start, stop |-> stop,
             hh |-> SubSeq(s, t, t + 1),
             mm |-> SubSeq(s, t + 3, t + 4),
             ss |-> SubSeq(s, t + 6, t + 7)]
    IN  IF ~HasAt(s, q, Literal) THEN NoMatch
        ELSE IF r + 9 <= Len(s) /\ s[r] = "[" /\ TimeAt(s, r + 1) /\ s[r + 9] = "]"
             THEN m(r + 1, r + 9)
        ELSE IF TimeAt(s, r) THEN m(r, r + 7)
        ELSE NoMatch

\* the pattern tried at position p: (?:\*?) is greedy, and gives the * back
\* when the rest does not match after it
MatchAt(s, p) ==
    IF p <= Len(s) /\ s[p] = "*" /\ BodyAt(s, p, p + 1).ok
    THEN BodyAt(s, p, p + 1)
    ELSE BodyAt(s, p, p)

\* the positions at which the pattern matches
MatchStarts(s) == {q \in 1..Len(s) : s[q] \in {"*", "S"} /\ MatchAt(s, q).ok}

\* re.finditer: leftmost, non-overlapping matches, in order; the search for
\* the next match resumes where the last one stopped
RECURSIVE Scan(_, _, _)
Scan(s, starts, p) ==
    LET at == {q \in starts : q >= p}
    IN  IF at = {} THEN <<>>
        ELSE LET m == MatchAt(s, CHOOSE q \in at : \A r \in at : q <= r)
             IN  <<m>> \o Scan(s, starts, m.stop + 1)

FindIter(s) == Scan(s, MatchStarts(s), 1)

\* match.group(0)
Group0(s, m) == SubSeq(s, m.start, m.stop)

\* mutant of TotalSeconds: the hours counted in
TotalSecondsWithHours(m) == IntOf(m.hh) * 3600 + IntOf(m.mm) * 60 + IntOf(m.ss)

\* total_seconds of one match
TotalSeconds(m) == IntOf(m.mm) * 60 + IntOf(m.ss)

extract_screenshot_markers(s) ==
    LET ms == FindIter(s)
    IN  [i \in 1..Len(ms) |-> <<Group0(s, ms[i]), TotalSeconds(ms[i])>>]

-----------------------------------------------------------------------------
(* generate_screenshot *)

\* output_path.name for a timestamp
Filename(timestamp) ==
    <<"s","c","r","e","e","n","s","h","o","t","_">>
        \o Fmt02d(timestamp \div 60) \o <<"_">> \o Fmt02d(timestamp % 60)
        \o <<".","j","p","g">>

\* what one invocation can do: the frame is written; ffmpeg runs and exits
\* with a failure status; mkdir raises; subprocess.run raises (no ffmpeg binary)
Outcomes == {"ok", "exit_fail", "mkdir_raise", "run_raise"}

\* mutant of Raises: subprocess.run(cmd, check=True)
RaisesChecked(o) == o \in {"mkdir_raise", "run_raise", "exit_fail"}

\* the outcomes in which generate_screenshot raises (run has check=False)
Raises(o) == o \in {"mkdir_raise", "run_raise"}

-----------------------------------------------------------------------------
(* replace_screenshots *)

None == <<"N","o","n","e">>
NoNote == <<"N","o","N","o","t","e">>

\* f"![]({image_base_url.rstrip('/')}/{img_path.name})"
Link(base, name) ==
    <<"!","[","]","(">> \o RStripSlash(base) \o <<"/">> \o name \o <<")">>

\* mutant of RS_NoVideo: the early return forgotten
RS_NoVideoProcessed ==
    /\ pc = "rs_entry"
    /\ video_path = None
    /\ matches' = extract_screenshot_markers(markdown)
    /\ idx' = 1
    /\ pc' = "rs_loop"
    /\ UNCHANGED <<cwd, text_in, video_path, image_base_url, markdown, calls,
                   dir_exists, files, note, summary, pass, prev>>

\* `if not video_path`: return the text as it came
RS_NoVideo ==
    /\ pc = "rs_entry"
    /\ video_path = None
    /\ pc' = "rs_ret"
    /\ UNCHANGED <<cwd, text_in, video_path, image_base_url, markdown, matches,
                   idx, calls, dir_exists, files, note, summary, pass, prev>>

\* matches = extract_screenshot_markers(markdown)
RS_Extract ==
    /\ pc = "rs_entry"
    /\ video_path # None
    /\ matches' = extract_screenshot_markers(markdown)
    /\ idx' = 1
    /\ pc' = "rs_loop"
    /\ UNCHANGED <<cwd, text_in, video_path, image_base_url, markdown, calls,
                   dir_exists, files, note, summary, pass, prev>>

\* mutant of Iteration: the first exception ends the loop
IterationBreak(o) ==
    /\ pc = "rs_loop"
    /\ idx <= Len(matches)
    /\ LET marker == matches[idx][1]
           ts == matches[idx][2]
       IN  /\ calls' = Append(calls, [ts |-> ts, outcome |-> o])
           /\ dir_exists' = (dir_exists \/ o # "mkdir_raise")
           /\ files' = IF o = "ok" THEN files \cup {Filename(ts)} ELSE files
           /\ markdown' =
                IF Raises(o) THEN markdown
                ELSE Replace1(markdown, marker, Link(image_base_url, Filename(ts)))
    /\ idx' = IF Raises(o) THEN Len(matches) + 1 ELSE idx + 1
    /\ UNCHANGED <<pc, cwd, text_in, video_path, image_base_url, matches, note,
                   summary, pass, prev>>

\* mutant of Iteration: no try/except, the exception leaves the program
IterationUncaught(o) ==
    /\ pc = "rs_loop"
    /\ idx <= Len(matches)
    /\ LET marker == matches[idx][1]
           ts == matches[idx][2]
       IN  /\ calls' = Append(calls, [ts |-> ts, outcome |-> o])
           /\ dir_exists' = (dir_exists \/ o # "mkdir_raise")
           /\ files' = IF o = "ok" THEN files \cup {Filename(ts)} ELSE files
           /\ markdown' =
                IF Raises(o) THEN markdown
                ELSE Replace1(markdown, marker, Link(image_base_url, Filename(ts)))
    /\ idx' = idx + 1
    /\ pc' = IF Raises(o) THEN "aborted" ELSE pc
    /\ UNCHANGED <<cwd, text_in, video_path, image_base_url, matches, note,
                   summary, pass, prev>>

\* one iteration of the for loop, generate_screenshot ending as o
Iteration(o) ==
    /\ pc = "rs_loop"
    /\ idx <= Len(matches)
    /\ LET marker == matches[idx][1]
           ts == matches[idx][2]
       IN  /\ calls' = Append(calls, [ts |-> ts, outcome |-> o])
           /\ dir_exists' = (dir_exists \/ o # "mkdir_raise")
           /\ files' = IF o = "ok" THEN files \cup {Filename(ts)} ELSE files
           /\ markdown' =
                IF Raises(o) THEN markdown
                ELSE Replace1(markdown, marker, Link(image_base_url, Filename(ts)))
    /\ idx' = idx + 1
    /\ UNCHANGED <<pc, cwd, text_in, video_path, image_base_url, matches, note,
                   summary, pass, prev>>

RS_IterOk == Iteration("ok")
RS_IterExitFail == Iteration("exit_fail")
RS_IterMkdirRaise == Iteration("mkdir_raise")
RS_IterRunRaise == Iteration("run_raise")

\* the loop is exhausted: return markdown
RS_Return ==
    /\ pc = "rs_loop"
    /\ idx > Len(matches)
    /\ pc' = "rs_ret"
    /\ UNCHANGED <<cwd, text_in, video_path, image_base_url, markdown, matches,
                   idx, calls, dir_exists, files, note, summary, pass, prev>>

-----------------------------------------------------------------------------
(* Documents *)

SegA == <<"S","c","r","e","e","n","s","h","o","t","-","0","0",":","0","1",":","0","0">>
SegStarA == <<"*">> \o SegA
SegBracket == <<"S","c","r","e","e","n","s","h","o","t","-","[","0","1",":","0","3",":","1","2","]">>
SegText == <<" ","x"," ">>
SegBroken == <<"S","c","r","e","e","n","s","h","o","t","-","[","0","0",":","0","1",":","0","0">>

Segments == {SegA, SegStarA, SegBracket, SegText, SegBroken}

RECURSIVE Concat(_)
Concat(ss) == IF ss = <<>> THEN <<>> ELSE Head(ss) \o Concat(Tail(ss))

\* the documents of at most n segments
DocsUpTo(n) == {Concat(ss) : ss \in UNION {[1..k -> Segments] : k \in 0..n}}

VideoFile == <<"a",".","m","p","4">>

UrlAssets == <<"a","s","s","e","t","s">>
UrlSlashes == <<"a","s","s","e","t","s","/","/">>
UrlMarker == SegA \o <<"/">>

UrlBases == {UrlSlashes, UrlMarker}

NoPrev == [inp |-> <<>>, out |-> <<>>, calls |-> <<>>]

-----------------------------------------------------------------------------
(* A direct call of replace_screenshots *)

InitCallWith(docs) ==
    /\ pc = "rs_entry"
    /\ cwd = [md |-> <<>>, mp4 |-> <<>>]
    /\ text_in \in docs
    /\ markdown = text_in
    /\ video_path \in {None, VideoFile}
    /\ image_base_url \in UrlBases
    /\ matches = <<>>
    /\ idx = 0
    /\ calls = <<>>
    /\ dir_exists = FALSE
    /\ files = {}
    /\ note = NoNote
    /\ summary = FALSE
    /\ pass = 1
    /\ prev = NoPrev

InitCall == InitCallWith(DocsUpTo(MaxSegs))

NextCall ==
    \/ RS_NoVideo
    \/ RS_Extract
    \/ RS_IterOk
    \/ RS_IterExitFail
    \/ RS_IterMkdirRaise
    \/ RS_IterRunRaise
    \/ RS_Return

SpecCall == InitCall /\ [][NextCall]_vars

-----------------------------------------------------------------------------
(* The round trip: replace_screenshots called on its own result, with the  *)
(* same video, output directory and url_base                               *)

RT_Refeed ==
    /\ pc = "rs_ret"
    /\ pass = 1
    /\ prev' = [inp |-> text_in, out |-> markdown, calls |-> calls]
    /\ text_in' = markdown
    /\ matches' = <<>>
    /\ idx' = 0
    /\ calls' = <<>>
    /\ pass' = 2
    /\ pc' = "rs_entry"
    /\ UNCHANGED <<cwd, video_path, image_base_url, markdown, dir_exists, files,
                   note, summary>>

InitRT == InitCallWith(DocsUpTo(MaxSegsRT))

NextRT ==
    \/ RS_NoVideo
    \/ RS_Extract
    \/ RS_IterOk
    \/ RS_IterExitFail
    \/ RS_IterMkdirRaise
    \/ RS_IterRunRaise
    \/ RS_Return
    \/ RT_Refeed

SpecRT == InitRT /\ [][NextRT]_vars

-----------------------------------------------------------------------------
(* main *)

OtherVideo == <<"b",".","m","p","4">>

\* the listings sorted(cwd.glob("*.md")) and sorted(cwd.glob("*.mp4")) can give
Listings ==
    {[md |-> mds, mp4 |-> vids] :
        mds \in {<<>>} \cup {<<d>> : d \in DocsUpTo(MaxSegs)}
                    \cup {<<d, SegText>> : d \in Segments},
        vids \in {<<>>, <<VideoFile>>, <<VideoFile, OtherVideo>>}}

Init ==
    /\ pc = "main"
    /\ cwd \in Listings
    /\ text_in = <<>>
    /\ markdown = <<>>
    /\ video_path = None
    /\ image_base_url = UrlAssets
    /\ matches = <<>>
    /\ idx = 0
    /\ calls = <<>>
    /\ dir_exists = FALSE
    /\ files = {}
    /\ note = NoNote
    /\ summary = FALSE
    /\ pass = 1
    /\ prev = NoPrev

\* `if not md_candidates: raise RuntimeError(...)`
Main_NoDocument ==
    /\ pc = "main"
    /\ cwd.md = <<>>
    /\ pc' = "aborted"
    /\ UNCHANGED <<cwd, text_in, video_path, image_base_url, markdown, matches,
                   idx, calls, dir_exists, files, note, summary, pass, prev>>

\* the first document and the first video, if any, are taken; the document
\* is read and replace_screenshots is called on it
Main_Discover ==
    /\ pc = "main"
    /\ cwd.md # <<>>
    /\ video_path' = IF cwd.mp4 # <<>> THEN cwd.mp4[1] ELSE None
    /\ text_in' = cwd.md[1]
    /\ markdown' = cwd.md[1]
    /\ pc' = "rs_entry"
    /\ UNCHANGED <<cwd, image_base_url, matches, idx, calls, dir_exists, files,
                   note, summary, pass, prev>>

\* write_note("note_processed", processed_md), then the summary is printed
Main_Finish ==
    /\ pc = "rs_ret"
    /\ note' = markdown
    /\ summary' = TRUE
    /\ pc' = "exit"
    /\ UNCHANGED <<cwd, text_in, video_path, image_base_url, markdown, matches,
                   idx, calls, dir_exists, files, pass, prev>>

Next ==
    \/ Main_NoDocument
    \/ Main_Discover
    \/ RS_NoVideo
    \/ RS_Extract
    \/ RS_IterOk
    \/ RS_IterExitFail
    \/ RS_IterMkdirRaise
    \/ RS_IterRunRaise
    \/ RS_Return
    \/ Main_Finish

Spec == Init /\ [][Next]_vars

-----------------------------------------------------------------------------
(* A direct call on documents of two markers whose fields vary *)

HourFields == {<<"0","0">>, <<"9","9">>}
MinuteFields == {<<"0","0">>, <<"0","1">>, <<"0","3">>, <<"9","9">>}
SecondFields == {<<"0","0">>, <<"1","2">>, <<"6","0">>}

MarkerText(star, bracket, hh, mm, ss) ==
    (IF star THEN <<"*">> ELSE <<>>)
        \o <<"S","c","r","e","e","n","s","h","o","t","-">>
        \o (IF bracket THEN <<"[">> ELSE <<>>)
        \o hh \o <<":">> \o mm \o <<":">> \o ss
        \o (IF bracket THEN <<"]">> ELSE <<>>)

FieldDocs ==
    {MarkerText(st, br, h1, m1, s1) \o <<" ">> \o MarkerText(FALSE, FALSE, h2, m2, s2) :
        st \in BOOLEAN, br \in BOOLEAN,
        h1 \in HourFields, m1 \in MinuteFields, s1 \in SecondFields,
        h2 \in HourFields, m2 \in MinuteFields, s2 \in SecondFields}

InitFields ==
    /\ pc = "rs_entry"
    /\ cwd = [md |-> <<>>, mp4 |-> <<>>]
    /\ text_in \in FieldDocs
    /\ markdown = text_in
    /\ \/ video_path = VideoFile /\ image_base_url \in {UrlAssets, UrlSlashes}
       \/ video_path = None /\ image_base_url = UrlAssets /\ text_in = SegA \o <<" ">> \o SegA
    /\ matches = <<>>
    /\ idx = 0
    /\ calls = <<>>
    /\ dir_exists = FALSE
    /\ files = {}
    /\ note = NoNote
    /\ summary = FALSE
    /\ pass = 1
    /\ prev = NoPrev

SpecFields == InitFields /\ [][NextCall]_vars

-----------------------------------------------------------------------------
(* Reading a run: the marker occurrences of the input and where they lie *)

\* the marker occurrences of the text the running pass was given
Occ == FindIter(text_in)

\* the raw text of occurrence i of occ, the value of Occ
RawOf(occ, i) == Group0(text_in, occ[i])

\* the image link expected for occurrence i
LinkOf(occ, i) == Link(image_base_url, Filename(TotalSeconds(occ[i])))

\* by how much the occurrences before i that were replaced by their links
\* have moved occurrence i
RECURSIVE Moved(_, _)
Moved(occ, i) ==
    IF i <= 1 THEN 0
    ELSE Moved(occ, i - 1)
         + (IF Raises(calls[i - 1].outcome) THEN 0
            ELSE Len(LinkOf(occ, i - 1)) - Len(RawOf(occ, i - 1)))

\* where occurrence i lies once the occurrences before it are settled
PlaceOf(occ, i) == occ[i].start + Moved(occ, i)

\* where a not yet processed occurrence k lies in text t of the running pass:
\* as far from the end as it was in the input
PlaceFromEnd(occ, t, k) == occ[k].start + (Len(t) - Len(text_in))

\* a step of the for loop was taken
IterStep == pc = "rs_loop" /\ idx' = idx + 1

-----------------------------------------------------------------------------
(* C1 *)

\* C1: with a video supplied, a marker occurrence whose generate_screenshot
\* raised is still present, unmodified, at its place in the document, whatever
\* happens to the markers processed before or after it.
C1_FailedMarkerKept ==
    (video_path # None /\ pc \in {"rs_loop", "rs_ret"}) =>
        LET occ == Occ
        IN  \A i \in 1..Len(calls) :
                Raises(calls[i].outcome) =>
                    HasAt(markdown, PlaceOf(occ, i), RawOf(occ, i))

-----------------------------------------------------------------------------
(* C2 *)

\* C2: with no video supplied, replace_screenshots returns the input text
\* unchanged, invokes generate_screenshot zero times, creates no output
\* directory, and returns normally.
C2_NoVideoIdentity ==
    video_path = None =>
        /\ pc \in {"rs_entry", "rs_ret"}
        /\ markdown = text_in
        /\ matches = <<>>
        /\ calls = <<>>
        /\ ~dir_exists
        /\ files = {}

C2_Witness ==
    /\ pc = "rs_ret"
    /\ video_path = None
    /\ Len(Occ) >= 2
    /\ markdown = text_in

-----------------------------------------------------------------------------
(* C8 *)

\* C8: with a video supplied, the marker list is computed once from the input
\* text and generate_screenshot is invoked exactly once per entry of it, one
\* at a time and in document order, whatever succeeds or fails; text produced
\* by earlier replacements is never rescanned.
C8_OncePerMarker ==
    (video_path # None /\ pc \in {"rs_loop", "rs_ret"}) =>
        LET occ == Occ
        IN  /\ Len(matches) = Len(occ)
            /\ \A i \in 1..Len(occ) :
                  matches[i] = <<RawOf(occ, i), TotalSeconds(occ[i])>>
            /\ Len(calls) = idx - 1
            /\ Len(calls) <= Len(occ)
            /\ \A i \in 1..Len(calls) : calls[i].ts = TotalSeconds(occ[i])
            /\ pc = "rs_ret" => Len(calls) = Len(occ)

C8_Witness ==
    /\ pc = "rs_ret"
    /\ video_path # None
    /\ FindIter(image_base_url) # <<>>
    /\ Len(calls) = 3
    /\ calls[1].outcome = "ok"
    /\ Raises(calls[2].outcome)
    /\ calls[3].outcome = "ok"
    /\ Len(FindIter(markdown)) > 1

-----------------------------------------------------------------------------
(* C9 *)

\* C9: the exit status of the capture process is not inspected: when ffmpeg
\* exits with a failure status and nothing is raised, the marker is replaced
\* by the image link exactly as for a successful capture although no file was
\* written; the marker is left unsubstituted exactly when an exception is raised.
C9_ExitStatusIgnored ==
    [][IterStep =>
         LET o == calls'[Len(calls')].outcome
             asOk == Replace1(markdown, matches[idx][1],
                              Link(image_base_url, Filename(matches[idx][2])))
         IN  /\ (o \in {"mkdir_raise", "run_raise"}) <=> (markdown' = markdown)
             /\ (o \in {"ok", "exit_fail"}) => (markdown' = asOk /\ asOk # markdown)
             /\ o = "exit_fail" => files' = files
       ]_vars

\* the returned document references an image file that does not exist
C9_Witness ==
    /\ pc = "rs_ret"
    /\ Len(calls) = 1
    /\ calls[1].outcome = "exit_fail"
    /\ Find(markdown, LinkOf(Occ, 1)) > 0
    /\ Filename(calls[1].ts) \notin files

-----------------------------------------------------------------------------
(* C10 *)

\* the input with every marker occurrence from the i-th on replaced, at its
\* own position, by the link for its own offset; `from` is where the text
\* not yet copied begins
RECURSIVE Positional(_, _, _)
Positional(occ, i, from) ==
    IF i > Len(occ) THEN SubSeq(text_in, from, Len(text_in))
    ELSE SubSeq(text_in, from, occ[i].start - 1) \o LinkOf(occ, i)
             \o Positional(occ, i + 1, occ[i].stop + 1)

NoneRaised == \A i \in 1..Len(calls) : ~Raises(calls[i].outcome)

\* C10: with a video, no call raising and a url_base free of marker text, the
\* returned document is the input with every marker occurrence replaced at its
\* own position by the link for its own offset, the text outside the
\* occurrences unchanged, and no marker is left in it.
C10_PositionBased ==
    (pc = "rs_ret" /\ video_path # None /\ NoneRaised
       /\ FindIter(image_base_url) = <<>>) =>
        /\ markdown = Positional(Occ, 1, 1)
        /\ extract_screenshot_markers(markdown) = <<>>

C10_Witness ==
    /\ pc = "rs_ret"
    /\ video_path # None
    /\ NoneRaised
    /\ FindIter(image_base_url) = <<>>
    /\ Len(calls) = 2
    /\ RawOf(Occ, 2) = <<"*">> \o RawOf(Occ, 1)
    /\ markdown = Positional(Occ, 1, 1)

-----------------------------------------------------------------------------
(* C3 *)

\* the occurrences other than i whose raw text is that of occurrence i
TwinsBefore(occ, i) == {k \in 1..(i - 1) : RawOf(occ, k) = RawOf(occ, i)}
TwinsAfter(occ, i) == {k \in (i + 1)..Len(occ) : RawOf(occ, k) = RawOf(occ, i)}

\* text `after` is text `before` with exactly one occurrence of `old`, the
\* first one, replaced by `new`
FirstOccurrenceReplaced(before, after, old, new) ==
    \E p \in 1..Len(before) :
        /\ HasAt(before, p, old)
        /\ \A q \in 1..(p - 1) : ~HasAt(before, q, old)
        /\ Len(after) = Len(before) - Len(old) + Len(new)
        /\ SubSeq(after, 1, p - 1) = SubSeq(before, 1, p - 1)
        /\ HasAt(after, p, new)
        /\ SubSeq(after, p + Len(new), Len(after))
               = SubSeq(before, p + Len(old), Len(before))

\* C3: textually identical marker occurrences are replaced independently and
\* in document order: the step for one of them is the idx-th invocation of
\* generate_screenshot, made after the steps for its earlier twins, it changes
\* exactly one occurrence of the raw text, the first remaining one, and it
\* leaves every later twin untouched at its place.
C3_IdenticalInOrder ==
    [][IterStep =>
         LET occ == Occ
             o == calls'[Len(calls')].outcome
         IN  (TwinsBefore(occ, idx) \cup TwinsAfter(occ, idx) # {}) =>
               /\ Len(calls) = idx - 1
               /\ Len(calls') = idx
               /\ calls'[idx].ts = TotalSeconds(occ[idx])
               /\ ~Raises(o) =>
                      FirstOccurrenceReplaced(markdown, markdown',
                                              RawOf(occ, idx), LinkOf(occ, idx))
               /\ Raises(o) => markdown' = markdown
               /\ \A k \in TwinsAfter(occ, idx) :
                      /\ HasAt(markdown, PlaceFromEnd(occ, markdown, k), RawOf(occ, k))
                      /\ HasAt(markdown', PlaceFromEnd(occ, markdown', k), RawOf(occ, k))
       ]_vars

\* two identical occurrences, both replaced, each by its own invocation
C3_Witness ==
    /\ pc = "rs_ret"
    /\ Len(calls) = 2
    /\ RawOf(Occ, 1) = RawOf(Occ, 2)
    /\ NoneRaised
    /\ FindIter(markdown) = <<>>
    /\ Occ[2].start > Occ[1].stop + 1

-----------------------------------------------------------------------------
(* C5 *)

\* the number a string of decimal digits denotes, read digit by digit
Num(c) ==
    CASE c = "0" -> 0 [] c = "1" -> 1 [] c = "2" -> 2 [] c = "3" -> 3
      [] c = "4" -> 4 [] c = "5" -> 5 [] c = "6" -> 6 [] c = "7" -> 7
      [] c = "8" -> 8 [] c = "9" -> 9

RECURSIVE NumOf(_)
NumOf(ds) ==
    IF ds = <<>> THEN 0
    ELSE NumOf(SubSeq(ds, 1, Len(ds) - 1)) * 10 + Num(ds[Len(ds)])

\* the HH:MM:SS of a marker's raw text: its last eight characters, the
\* closing bracket put aside
ClockOf(raw) ==
    LET e == IF raw[Len(raw)] = "]" THEN Len(raw) - 1 ELSE Len(raw)
    IN  SubSeq(raw, e - 7, e)

HourOf(raw) == NumOf(SubSeq(ClockOf(raw), 1, 2))
MinuteOf(raw) == NumOf(SubSeq(ClockOf(raw), 4, 5))
SecondOf(raw) == NumOf(SubSeq(ClockOf(raw), 7, 8))

\* C5: for every marker of either surface form, the extractor yields the
\* offset MM*60 + SS, a non-negative integer that does not depend on HH:
\* Screenshot-00:03:12 yields 192, and two markers that differ only in their
\* hour field yield the same offset.
C5_OffsetIgnoresHours ==
    (video_path # None /\ pc \in {"rs_loop", "rs_ret"}) =>
        /\ Len(matches) = 2
        /\ LET occ == Occ
           IN  \A i \in 1..Len(matches) : matches[i][1] = RawOf(occ, i)
        /\ \A i \in 1..Len(matches) :
              LET raw == matches[i][1]
                  ts == matches[i][2]
              IN  /\ ts = MinuteOf(raw) * 60 + SecondOf(raw)
                  /\ ts \in Nat
                  /\ raw = <<"S","c","r","e","e","n","s","h","o","t","-",
                             "0","0",":","0","3",":","1","2">> => ts = 192
        /\ \A i, j \in 1..Len(matches) :
              (MinuteOf(matches[i][1]) = MinuteOf(matches[j][1])
                 /\ SecondOf(matches[i][1]) = SecondOf(matches[j][1]))
                  => matches[i][2] = matches[j][2]

\* two markers of different form that differ in their hour field only
C5_Witness ==
    /\ pc = "rs_loop"
    /\ Len(matches) = 2
    /\ matches[1][1][1] = "*"
    /\ matches[1][1][Len(matches[1][1])] = "]"
    /\ HourOf(matches[1][1]) = 99
    /\ HourOf(matches[2][1]) = 0
    /\ ClockOf(matches[2][1]) = <<"0","0",":","0","3",":","1","2">>
    /\ matches[1][2] = 192
    /\ matches[2][2] = 192

-----------------------------------------------------------------------------
(* C6 *)

AllDigits(ds) == \A k \in 1..Len(ds) : ds[k] \in Digit

\* text L is ![](B/screenshot_M_S.jpg): B is url without its trailing
\* slashes, M and S are t div 60 and t mod 60 in decimal, each of two digits
\* or more and of no more than the number needs
IsLinkFor(L, url, t) ==
    \E b \in 0..Len(url), m \in 2..(Len(L)) :
        /\ b = 0 \/ url[b] # "/"
        /\ \A k \in (b + 1)..Len(url) : url[k] = "/"
        /\ Len(L) = 4 + b + 12 + m + 1 + 2 + 5
        /\ SubSeq(L, 1, 4) = <<"!","[","]","(">>
        /\ SubSeq(L, 5, 4 + b) = SubSeq(url, 1, b)
        /\ SubSeq(L, 5 + b, 16 + b)
               = <<"/","s","c","r","e","e","n","s","h","o","t","_">>
        /\ LET M == SubSeq(L, 17 + b, 16 + b + m)
               S == SubSeq(L, 18 + b + m, 19 + b + m)
           IN  /\ AllDigits(M)
               /\ AllDigits(S)
               /\ L[17 + b + m] = "_"
               /\ NumOf(M) = t \div 60
               /\ NumOf(S) = t % 60
               /\ m > 2 => M[1] # "0"
        /\ SubSeq(L, 20 + b + m, Len(L)) = <<".","j","p","g",")">>

\* the file name inside a link of the shape above
NameIn(L, url) == SubSeq(L, 6 + Len(RStripSlash(url)), Len(L) - 1)

\* the offsets whose frame was written
Written == {calls[i].ts : i \in {k \in 1..Len(calls) : calls[k].outcome = "ok"}}

\* C6: a successful replacement puts, in place of the marker,
\* ![](<url_base without trailing slashes>/screenshot_<t div 60>_<t mod 60>.jpg)
\* with both numbers zero-padded to at least two digits; the file written
\* has that name, the same offset names the same file and two different
\* offsets never name the same file.
C6_LinkAndFilename ==
    /\ [](Cardinality(files) = Cardinality(Written))
    /\ [][(IterStep /\ ~Raises(calls'[Len(calls')].outcome)) =>
            LET raw == matches[idx][1]
                t == matches[idx][2]
                n == Len(markdown') - Len(markdown) + Len(raw)
            IN  \E p \in 1..Len(markdown) :
                  LET L == SubSeq(markdown', p, p + n - 1)
                  IN  /\ HasAt(markdown, p, raw)
                      /\ IsLinkFor(L, image_base_url, t)
                      /\ SubSeq(markdown', 1, p - 1) = SubSeq(markdown, 1, p - 1)
                      /\ SubSeq(markdown', p + n, Len(markdown'))
                             = SubSeq(markdown, p + Len(raw), Len(markdown))
                      /\ calls'[Len(calls')].outcome = "ok" =>
                             files' = files \cup {NameIn(L, image_base_url)}
          ]_vars

\* a url_base with trailing slashes and two markers of different text at
\* the same offset (MM:SS = 00:60 and 01:00): one file, written twice
C6_Witness ==
    /\ pc = "rs_ret"
    /\ image_base_url = UrlSlashes
    /\ Len(calls) = 2
    /\ calls[1].ts = 60
    /\ calls[2].ts = 60
    /\ MinuteOf(RawOf(Occ, 1)) = 0
    /\ MinuteOf(RawOf(Occ, 2)) = 1
    /\ calls[1].outcome = "ok"
    /\ calls[2].outcome = "ok"
    /\ Cardinality(files) = 1

\* a minute count of three digits in the link
C6_WitnessWide ==
    /\ pc = "rs_ret"
    /\ Len(calls) = 2
    /\ calls[1].ts = 6000
    /\ calls[1].outcome = "ok"
    /\ Find(markdown, <<"_","1","0","0","_","0","0",".">>) > 0

-----------------------------------------------------------------------------
(* C4 *)

\* how many times `sub` occurs in s
Occurrences(s, sub) == Cardinality({p \in 1..Len(s) : HasAt(s, p, sub)})

\* how many of the calls cs were made at offset t and ended in one of outs
CallsAt(cs, t, outs) ==
    Cardinality({i \in 1..Len(cs) : cs[i].ts = t /\ cs[i].outcome \in outs})

Raising == {o \in Outcomes : Raises(o)}
Returning == Outcomes \ Raising

\* C4: fed its own output again with the same video, output directory and
\* url_base (free of marker text), replace_screenshots leaves every image link
\* of the first pass as it is, and invokes generate_screenshot only for the
\* markers the first pass left unresolved: as many invocations at each offset
\* as the first pass had failures at it; if the first pass resolved every
\* marker, the second pass makes no invocation and returns its input unchanged.
C4_RoundTrip ==
    (pass = 2 /\ pc = "rs_ret" /\ video_path # None
       /\ FindIter(image_base_url) = <<>>) =>
        /\ text_in = prev.out
        /\ Len(calls)
             = Cardinality({i \in 1..Len(prev.calls) : Raises(prev.calls[i].outcome)})
        /\ \A t \in {c.ts : c \in {prev.calls[i] : i \in 1..Len(prev.calls)}} :
              /\ CallsAt(calls, t, Outcomes) = CallsAt(prev.calls, t, Raising)
              /\ LET L == Link(image_base_url, Filename(t))
                 IN  /\ Occurrences(prev.out, L) = CallsAt(prev.calls, t, Returning)
                     /\ Occurrences(markdown, L)
                            = Occurrences(prev.out, L) + CallsAt(calls, t, Returning)
        /\ (\A i \in 1..Len(prev.calls) : ~Raises(prev.calls[i].outcome)) =>
              (calls = <<>> /\ matches = <<>> /\ markdown = prev.out)

\* the first pass left one of two markers unresolved, and the second pass
\* resolved it
C4_Witness ==
    /\ pass = 2
    /\ pc = "rs_ret"
    /\ FindIter(image_base_url) = <<>>
    /\ Len(prev.calls) = 2
    /\ prev.calls[1].outcome = "run_raise"
    /\ prev.calls[2].outcome = "ok"
    /\ prev.calls[1].ts # prev.calls[2].ts
    /\ Len(calls) = 1
    /\ calls[1].outcome = "ok"
    /\ FindIter(markdown) = <<>>

-----------------------------------------------------------------------------
(* C7 *)

\* some step of the run can be taken; RS_Extract, which has no other guard,
\* is read off its position
CanGoOn ==
    \/ pc = "rs_entry" /\ video_path # None
    \/ ENABLED (Main_Discover \/ RS_NoVideo \/ RS_IterOk \/ RS_IterExitFail
                  \/ RS_IterMkdirRaise \/ RS_IterRunRaise \/ RS_Return
                  \/ Main_Finish)

\* C7: in main, with no Markdown document in the working directory the run
\* aborts before any processing: no extraction, no generate_screenshot, no
\* note written, no summary printed. With a document the run never aborts,
\* whether a video is found or not and whatever fails per marker: it goes on
\* until the note is written with the processed text and the summary printed.
C7_OnlyNoDocumentAborts ==
    /\ cwd.md = <<>> =>
          /\ pc \in {"main", "aborted"}
          /\ matches = <<>>
          /\ calls = <<>>
          /\ ~dir_exists
          /\ note = NoNote
          /\ ~summary
    /\ cwd.md # <<>> =>
          /\ pc # "aborted"
          /\ pc = "exit" => (note = markdown /\ summary)
          /\ pc # "exit" => (note = NoNote /\ ~summary /\ CanGoOn)

\* a run with a video in which a marker failed, ended with note and summary
C7_Witness ==
    /\ pc = "exit"
    /\ Len(cwd.mp4) = 2
    /\ Len(calls) = 2
    /\ Raises(calls[1].outcome)
    /\ calls[2].outcome = "ok"
    /\ note = markdown
    /\ summary

\* a run without any document, aborted
C7_WitnessAbort ==
    /\ pc = "aborted"
    /\ cwd.md = <<>>
    /\ cwd.mp4 # <<>>

====
